---- MODULE Spec2Model ----
(***************************************************************************)
(* Routing cycle detector (my_solution.py): the per-key graph store, the   *)
(* explicit-stack depth-first search search_cycle_paths, and the main loop *)
(* that drives both over a stream of hop lines.                            *)
(*                                                                         *)
(* A line of the source file is modelled as the sequence of its            *)
(* pipe-delimited fields (what line.strip().split('|') yields); a blank    *)
(* line is the empty sequence.  Systems (nodes) are opaque values compared *)
(* by equality only, so they are modelled as the numbers 1..NumNodes.      *)
(***************************************************************************)
EXTENDS Integers, Sequences, FiniteSets, TLC

\* ---------------------------------------------------------------- bounds
NumNodes == 3         \* distinct system names in the input
MaxLines == 4         \* non-blank lines pulled from the source file in one run
MaxBest  == 2         \* largest current_best handed to a stand-alone search
MaxEdges == 5         \* most edges of an adjacency handed to a stand-alone search

Nodes       == 1..NumNodes
ClaimIds    == {"123"}
StatusCodes == {"197", "45"}
GraphIDs    == ClaimIds \X StatusCodes

\* ------------------------------------------------------------ data types
\* GraphID = namedtuple('GraphID', ['claim_id', 'status_code'])
GraphID(claim_id, status_code) == <<claim_id, status_code>>

\* SystemEdge = namedtuple('SystemEdge', ['source_system', 'destination_system'])
SystemEdge(source_system, destination_system) ==
    [source_system |-> source_system, destination_system |-> destination_system]

\* Python's None, as returned by search_cycle_paths (never a valid depth).
None == -1

\* Python's None, as the initial global_longest_graph_id (never a GraphID).
NoGraphID == <<>>

VARIABLES
    \* ---- search_cycle_paths: parameters, locals and return value
    start,            \* parameter start
    target,           \* parameter target
    edges,            \* parameter edges: dict system -> set of systems
    current_best,     \* parameter current_best
    stack,            \* local stack: list of (system, depth, visited) frames
    result,           \* the value returned (cycle_path_length in main)
    spc,              \* "idle", "running" (inside the while loop), "returned"
    \* ---- main
    graphs,           \* dict GraphID -> {'edges': ..., 'longest_cycle': ...}
    global_longest_cycle,
    global_longest_graph_id,
    line,             \* the line on which the run was aborted, if it was
    hop_count,        \* per GraphID, the number of hops yielded so far
    output,           \* what has been printed to standard output
    pc                \* "loop", "done", "error"; "call" in a stand-alone search

searchVars == <<start, target, edges, current_best, stack, result, spc>>
mainVars   == <<graphs, global_longest_cycle, global_longest_graph_id,
                line, hop_count, output, pc>>
vars       == <<start, target, edges, current_best, stack, result, spc,
                graphs, global_longest_cycle, global_longest_graph_id,
                line, hop_count, output, pc>>

\* ------------------------------------------------- search_cycle_paths
\* edges.get(system, ())
Neighbours(e, system) == IF system \in DOMAIN e THEN e[system] ELSE {}

\* One stack entry: (current_system, depth_so_far, visited_set)
Frame(system, depth, visited) ==
    [system |-> system, depth |-> depth, visited |-> visited]

\* stack = [(start, 0, set())]
InitialStackDepthOne(s) == <<Frame(s, 1, {})>>
InitialStack(s) == <<Frame(s, 0, {})>>

\* if depth + 1 <= current_best: continue
PrunedLoose(depth, best) == depth + 1 < best
Pruned(depth, best) == depth + 1 <= best

\* if system == target: return depth
IsTargetRevisit(system, tgt, visited) == system = tgt \/ system \in visited
IsTarget(system, tgt, visited) == system = tgt

\* if system in visited: continue
RevisitedNever(system, visited) == FALSE
Revisited(system, visited) == system \in visited

\* The orders in which iterating a set can yield its members: the iteration
\* order of a Python set of strings is not fixed by the program.
Orders(S) ==
    { f \in [1..Cardinality(S) -> S] : \A i, j \in 1..Cardinality(S) : i # j => f[i] # f[j] }

\* for next_system in edges.get(system, ()):
\*     stack.append((next_system, depth + 1, new_visited))
Pushed(order, depth, new_visited) ==
    [i \in 1..Len(order) |-> Frame(order[i], depth + 1, new_visited)]

\* system, depth, visited = stack.pop()
Top == stack[Len(stack)]
Popped == SubSeq(stack, 1, Len(stack) - 1)

\* One iteration of the while loop that ends in the pruning `continue`.
SearchPrune ==
    /\ spc = "running" /\ stack # <<>>
    /\ Pruned(Top.depth, current_best)
    /\ stack' = Popped
    /\ UNCHANGED <<start, target, edges, current_best, result, spc>>
    /\ UNCHANGED mainVars

\* One iteration that reaches the target: return depth.
SearchFound ==
    /\ spc = "running" /\ stack # <<>>
    /\ ~Pruned(Top.depth, current_best)
    /\ IsTarget(Top.system, target, Top.visited)
    /\ result' = Top.depth
    /\ spc' = "returned"
    /\ stack' = Popped
    /\ UNCHANGED <<start, target, edges, current_best>>
    /\ UNCHANGED mainVars

\* One iteration that pops an already visited system: continue.
SearchRevisit ==
    /\ spc = "running" /\ stack # <<>>
    /\ ~Pruned(Top.depth, current_best)
    /\ ~IsTarget(Top.system, target, Top.visited)
    /\ Revisited(Top.system, Top.visited)
    /\ stack' = Popped
    /\ UNCHANGED <<start, target, edges, current_best, result, spc>>
    /\ UNCHANGED mainVars

\* One iteration that expands a system: push a frame for every neighbour.
SearchExpand ==
    /\ spc = "running" /\ stack # <<>>
    /\ ~Pruned(Top.depth, current_best)
    /\ ~IsTarget(Top.system, target, Top.visited)
    /\ ~Revisited(Top.system, Top.visited)
    /\ \E order \in Orders(Neighbours(edges, Top.system)) :
          stack' = Popped \o Pushed(order, Top.depth, Top.visited \cup {Top.system})
    /\ UNCHANGED <<start, target, edges, current_best, result, spc>>
    /\ UNCHANGED mainVars

\* The while loop ends with the stack empty: return None.
SearchExhausted ==
    /\ spc = "running" /\ stack = <<>>
    /\ result' = None
    /\ spc' = "returned"
    /\ UNCHANGED <<start, target, edges, current_best, stack>>
    /\ UNCHANGED mainVars

\* The values a call can return, over every order in which the neighbour sets
\* can be iterated.  Visit is the work done for one frame and all the frames
\* pushed because of it: the frames pushed later are popped first, and the
\* frames below are reached only if none of them returns.
RECURSIVE Visit(_, _, _, _, _, _)
Visit(e, tgt, best, system, depth, visited) ==
    IF Pruned(depth, best) THEN {None}
    ELSE IF IsTarget(system, tgt, visited) THEN {depth}
    ELSE IF Revisited(system, visited) THEN {None}
    ELSE LET found == UNION { Visit(e, tgt, best, n, depth + 1, visited \cup {system}) :
                               n \in Neighbours(e, system) } \ {None}
         IN  IF found = {} THEN {None} ELSE found

search_cycle_paths(s, tgt, e, best) == Visit(e, tgt, best, s, 0, {})

SearchStep ==
    \/ SearchPrune
    \/ SearchFound
    \/ SearchRevisit
    \/ SearchExpand
    \/ SearchExhausted

\* --------------------------------------------- stand-alone search calls
\* The adjacency mapping holding exactly the edges E (pairs <<source,
\* destination>>): a dict whose keys are the systems with an outgoing edge.
AdjacencyOf(E) ==
    [s \in {e[1] : e \in E} |-> {e[2] : e \in {x \in E : x[1] = s}}]

\* Every adjacency mapping over Nodes with at most MaxEdges edges.
Adjacencies ==
    { AdjacencyOf(E) : E \in {X \in SUBSET (Nodes \X Nodes) : Cardinality(X) <= MaxEdges} }

InitSearch ==
    /\ start \in Nodes
    /\ target \in Nodes
    /\ edges \in Adjacencies
    /\ current_best \in 0..MaxBest
    /\ stack = InitialStack(start)
    /\ result = None
    /\ spc = "running"
    /\ graphs = <<>>
    /\ global_longest_cycle = 0
    /\ global_longest_graph_id = NoGraphID
    /\ line = <<>>
    /\ hop_count = [k \in GraphIDs |-> 0]
    /\ output = <<>>
    /\ pc = "call"

SpecSearch == InitSearch /\ [][SearchStep]_vars

\* A call that has started runs on: the while loop takes its next iteration
\* as long as there is one to take (one thread, no blocking inside the loop).
SpecSearchFair == InitSearch /\ [][SearchStep]_vars /\ WF_vars(SearchStep)

\* ------------------------------------------------------------ the input
\* The well-formed lines: <source_system>|<destination_system>|<claim_id>|<status_code>
GoodLines == Nodes \X Nodes \X ClaimIds \X StatusCodes

\* Lines that do not split into four fields: one with three, one with five
\* (the latter names a claim_id no well-formed line of the input names).
BadLines == { <<1, 1, "123">>, <<1, 1, "999", "197", "x">> }

\* The non-blank lines the source file can hold.
Lines == GoodLines \cup BadLines

\* A line for which line.strip() is empty.
BlankLine == <<>>

\* The name of the source file, as printed in the not-found message.
SourceFile == "hops.txt"

\* ------------------------------------------------------- get_hop_data
\* source, destination, claim_id, status_code = line.strip().split('|')
\* raises ValueError unless there are exactly four fields.
UnpacksAtLeast(l) == Len(l) >= 4
Unpacks(l) == Len(l) = 4

get_hop_data_claim_only(l) ==
    [graph_id |-> GraphID(l[3], l[3]), edge |-> SystemEdge(l[1], l[2])]
get_hop_data(l) ==
    [graph_id |-> GraphID(l[3], l[4]), edge |-> SystemEdge(l[1], l[2])]

\* --------------------------------------------------------------- main
Max(a, b) == IF a >= b THEN a ELSE b

\* graphs[graph_id] = {'edges': {source: set([destination])}, 'longest_cycle': 0}
NewGraphCounted(edge) ==
    [edges |-> (edge.source_system :> {edge.destination_system}), longest_cycle |-> 1]
NewGraph(edge) ==
    [edges |-> (edge.source_system :> {edge.destination_system}), longest_cycle |-> 0]

\* if edge.source_system not in edges: edges[edge.source_system] = set()
\* edges[edge.source_system].add(edge.destination_system)
InsertEdgeReversed(e, edge) ==
    [s \in DOMAIN e \cup {edge.destination_system} |->
        IF s = edge.destination_system
        THEN Neighbours(e, s) \cup {edge.source_system}
        ELSE e[s]]
InsertEdge(e, edge) ==
    [s \in DOMAIN e \cup {edge.source_system} |->
        IF s = edge.source_system
        THEN Neighbours(e, s) \cup {edge.destination_system}
        ELSE e[s]]

\* cycle_length = cycle_path_length + 1
CycleLengthNoClosingEdge(cycle_path_length) == cycle_path_length
CycleLength(cycle_path_length) == cycle_path_length + 1

\* graph['longest_cycle'] = max(graph['longest_cycle'], cycle_length)
\* if cycle_length > longest_cycle: graph['longest_cycle'] = cycle_length
UpdatedLongestLocalOnly(stored, longest_cycle, cycle_length) == stored
UpdatedLongest(stored, longest_cycle, cycle_length) ==
    IF cycle_length > longest_cycle THEN cycle_length ELSE Max(stored, cycle_length)

\* if cycle_length > global_longest_cycle: (replace the global best)
BeatsOrTiesGlobal(cycle_length, global) == cycle_length >= global
BeatsGlobal(cycle_length, global) == cycle_length > global

\* f'{claim_id},{status_code},{global_longest_cycle}'
ResultLineSwapped(graph_id, n) == graph_id[2] \o "," \o graph_id[1] \o "," \o ToString(n)
ResultLine(graph_id, n) == graph_id[1] \o "," \o graph_id[2] \o "," \o ToString(n)

\* f'Could not find a longest cycle from data in {source_file}.'
NotFoundLine == "Could not find a longest cycle from data in " \o SourceFile \o "."

\* if global_longest_graph_id is not None: print(...) else: print(...)
FinalOutput(graph_id, n) ==
    IF graph_id # NoGraphID THEN <<ResultLine(graph_id, n)>> ELSE <<NotFoundLine>>

\* The number of non-blank lines pulled from the source file so far: each of
\* them yielded a hop, but for a malformed one, which ends the run.
RECURSIVE Sum(_, _)
Sum(f, S) == IF S = {} THEN 0 ELSE LET k == CHOOSE x \in S : TRUE IN f[k] + Sum(f, S \ {k})
Pulled == Sum(hop_count, GraphIDs)

\* The for loop pulls a line for which line.strip() is empty: no hop is
\* yielded and nothing changes.
PullBlank ==
    /\ pc = "loop"
    /\ line' = BlankLine
    /\ UNCHANGED <<graphs, global_longest_cycle, global_longest_graph_id,
                   hop_count, output, pc>>
    /\ UNCHANGED searchVars

\* The for loop pulls a line get_hop_data cannot unpack: ValueError leaves main.
PullMalformed ==
    /\ pc = "loop" /\ Pulled < MaxLines
    /\ \E l \in Lines :
          /\ ~Unpacks(l)
          /\ line' = l
    /\ pc' = "error"
    /\ UNCHANGED <<graphs, global_longest_cycle, global_longest_graph_id,
                   hop_count, output>>
    /\ UNCHANGED searchVars

\* The for loop pulls the first hop of a graph_id: create the graph, continue.
PullFirstHop ==
    /\ pc = "loop" /\ Pulled < MaxLines
    /\ \E l \in Lines :
          LET hop == get_hop_data(l) IN
          /\ Unpacks(l)
          /\ hop.graph_id \notin DOMAIN graphs
          /\ graphs' = [k \in DOMAIN graphs \cup {hop.graph_id} |->
                           IF k = hop.graph_id THEN NewGraph(hop.edge) ELSE graphs[k]]
          /\ hop_count' = [hop_count EXCEPT ![<<l[3], l[4]>>] = @ + 1]
    /\ UNCHANGED <<global_longest_cycle, global_longest_graph_id, line, output, pc>>
    /\ UNCHANGED searchVars

\* The for loop pulls a hop of a known graph_id: search for a path from the
\* hop's destination back to its source, update the bests, insert the edge.
PullHop ==
    /\ pc = "loop" /\ Pulled < MaxLines
    /\ \E l \in Lines :
          LET hop == get_hop_data(l) IN
          /\ Unpacks(l)
          /\ hop.graph_id \in DOMAIN graphs
          /\ LET graph == graphs[hop.graph_id]
                 longest_cycle == graph.longest_cycle
             IN  \E cycle_path_length \in
                       search_cycle_paths(hop.edge.destination_system,
                                          hop.edge.source_system,
                                          graph.edges, longest_cycle) :
                   LET found == cycle_path_length # None
                       cycle_length == CycleLength(cycle_path_length)
                   IN
                   /\ graphs' = [graphs EXCEPT ![hop.graph_id] =
                         [edges |-> InsertEdge(graph.edges, hop.edge),
                          longest_cycle |->
                              IF found
                              THEN UpdatedLongest(graph.longest_cycle, longest_cycle,
                                                  cycle_length)
                              ELSE graph.longest_cycle]]
                   /\ IF found /\ BeatsGlobal(cycle_length, global_longest_cycle)
                      THEN /\ global_longest_cycle' = cycle_length
                           /\ global_longest_graph_id' = hop.graph_id
                      ELSE UNCHANGED <<global_longest_cycle, global_longest_graph_id>>
          /\ hop_count' = [hop_count EXCEPT ![<<l[3], l[4]>>] = @ + 1]
    /\ UNCHANGED <<line, output, pc>>
    /\ UNCHANGED searchVars

\* The stream is exhausted: print the final result.
EndOfStream ==
    /\ pc = "loop"
    /\ output' = output \o FinalOutput(global_longest_graph_id, global_longest_cycle)
    /\ pc' = "done"
    /\ UNCHANGED <<graphs, global_longest_cycle, global_longest_graph_id,
                   line, hop_count>>
    /\ UNCHANGED searchVars

Init ==
    /\ start = None
    /\ target = None
    /\ edges = <<>>
    /\ current_best = 0
    /\ stack = <<>>
    /\ result = None
    /\ spc = "idle"
    /\ graphs = <<>>
    /\ global_longest_cycle = 0
    /\ global_longest_graph_id = NoGraphID
    /\ line = BlankLine
    /\ hop_count = [k \in GraphIDs |-> 0]
    /\ output = <<>>
    /\ pc = "loop"

Next ==
    \/ PullBlank
    \/ PullMalformed
    \/ PullFirstHop
    \/ PullHop
    \/ EndOfStream

Spec == Init /\ [][Next]_vars

\* =================================================================
\* Properties
\* =================================================================

\* The lengths (edge counts) of the simple paths from s to tgt in adjacency e
\* that avoid the systems in `avoid`: no system occurs twice on such a path.
RECURSIVE SimplePathLengths(_, _, _, _)
SimplePathLengths(e, s, tgt, avoid) ==
    IF s = tgt THEN {0}
    ELSE UNION { { p + 1 : p \in SimplePathLengths(e, n, tgt, avoid \cup {s}) } :
                 n \in Neighbours(e, s) \ (avoid \cup {s}) }

\* The systems reachable from the systems in S by following edges of e.
RECURSIVE ReachableFrom(_, _)
ReachableFrom(e, S) ==
    LET more == S \cup UNION { Neighbours(e, n) : n \in S }
    IN  IF more = S THEN S ELSE ReachableFrom(e, more)

\* There is a directed path (of zero or more edges) from s to tgt in e.
HasPath(e, s, tgt) == tgt \in ReachableFrom(e, {s})

\* The stepwise loop and the recursive account of search_cycle_paths agree:
\* what the loop returns is one of the values Visit computes.
SearchAgrees ==
    spc = "returned" => result \in search_cycle_paths(start, target, edges, current_best)

\* C1: a stand-alone search returns a hop count whenever the adjacency holds a
\* simple path from start to target of p edges with p + 1 > current_best, and
\* returns None only when there is no such path.
C1_FindsEveryQualifyingPath ==
    spc = "returned" =>
        ( (result # None) <=>
          (\E p \in SimplePathLengths(edges, start, target, {}) : p + 1 > current_best) )

\* C5: a stand-alone search never returns a value p with p + 1 <= current_best:
\* every value returned satisfies p + 1 > current_best.
C5_PruningCorrect ==
    (spc = "returned" /\ result # None) => result + 1 > current_best

\* C5 witness: a search has returned a path of two hops.
C5_Witness ==
    spc = "returned" /\ pc = "call" /\ result = 2 /\ start # target

\* C8: when the adjacency holds no directed path from start to target, a
\* stand-alone search returns None, whatever current_best is and whether or
\* not the adjacency has cycles.
C8_NoPathReturnsNone ==
    (spc = "returned" /\ ~HasPath(edges, start, target)) => result = None

\* C8 witness: a search with current_best = 0 has returned from an adjacency
\* in which start lies on a cycle that does not reach target.
C8_Witness ==
    /\ spc = "returned" /\ pc = "call" /\ current_best = 0
    /\ ~HasPath(edges, start, target)
    /\ \E n \in Neighbours(edges, start) : n # start /\ HasPath(edges, n, start)
    /\ result = None


\* The edges (pairs <<source, destination>>) an adjacency mapping holds.
EdgeSet(e) == UNION { { <<s, d>> : d \in e[s] } : s \in DOMAIN e }

\* The systems that occur in the edges E.
NodesOf(E) == { x[1] : x \in E } \cup { x[2] : x \in E }

OutDegree(E, n) == Cardinality({ x \in E : x[1] = n })
InDegree(E, n)  == Cardinality({ x \in E : x[2] = n })

\* E is one simple directed cycle of at least two edges.
IsSimpleCycle(E) ==
    /\ Cardinality(E) >= 2
    /\ \A n \in NodesOf(E) : OutDegree(E, n) = 1 /\ InDegree(E, n) = 1
    /\ \A n, m \in NodesOf(E) : HasPath(AdjacencyOf(E), n, m)

\* E is one acyclic chain v0 -> v1 -> ... -> vm of distinct systems, m >= 1.
IsChain(E) ==
    /\ E # {}
    /\ \A n \in NodesOf(E) : OutDegree(E, n) <= 1 /\ InDegree(E, n) <= 1
    /\ Cardinality(NodesOf(E)) = Cardinality(E) + 1
    /\ \A x \in E : ~HasPath(AdjacencyOf(E), x[2], x[1])

\* The hops pulled so far for key k were all different, and form a chain or
\* one simple cycle.
ChainOrCycle(k) ==
    /\ hop_count[k] = Cardinality(EdgeSet(graphs[k].edges))
    /\ IsChain(EdgeSet(graphs[k].edges)) \/ IsSimpleCycle(EdgeSet(graphs[k].edges))

\* Key k holds a simple cycle that is strictly longer than every other key's.
StrictlyLongestCycle(k) ==
    /\ IsSimpleCycle(EdgeSet(graphs[k].edges))
    /\ \A j \in DOMAIN graphs \ {k} :
          IsSimpleCycle(EdgeSet(graphs[j].edges)) =>
              Cardinality(EdgeSet(graphs[j].edges)) < Cardinality(EdgeSet(graphs[k].edges))

C3_FirstHopSelfLoopCounted ==
    \A k \in DOMAIN graphs :
        (hop_count[k] = 1 /\ \E n \in Nodes : graphs[k].edges = (n :> {n})) =>
            graphs[k].longest_cycle = 1

\* A step that processes, for key k, a hop whose edge the graph already holds.
DuplicateHop(k) ==
    /\ k \in DOMAIN graphs /\ k \in DOMAIN graphs'
    /\ hop_count'[k] = hop_count[k] + 1
    /\ EdgeSet(graphs'[k].edges) = EdgeSet(graphs[k].edges)

\* C4: processing a hop a second time under its key is a no-op: the adjacency
\* is the same, and so is what every later search for that key can return.
C4_DuplicateHopIsNoOp ==
    [][ \A k \in GraphIDs :
          DuplicateHop(k) =>
            /\ graphs'[k].edges = graphs[k].edges
            /\ \A s, t \in Nodes :
                  search_cycle_paths(s, t, graphs'[k].edges, graphs'[k].longest_cycle)
                    = search_cycle_paths(s, t, graphs[k].edges, graphs[k].longest_cycle)
      ]_vars

\* A duplicate hop changes a graph only when it repeats a self-loop that was
\* the first hop of its key (the case of C3).
DuplicateOnlyAfterMissedSelfLoop ==
    [][ \A k \in GraphIDs :
          (DuplicateHop(k) /\ graphs'[k] # graphs[k]) =>
            /\ graphs[k].longest_cycle = 0 /\ graphs'[k].longest_cycle = 1
            /\ \E n \in Nodes : n \in Neighbours(graphs[k].edges, n)
      ]_vars

\* C6: processing a hop of one key leaves the graph of every other key as it
\* was; every key that has had a hop has a graph of its own (keys that differ
\* in one field only are different graphs); and the processed key's new best
\* is its old one or the length of a cycle the hop closes through edges of
\* that key's own adjacency.
C6_Independence ==
    [][ \A k \in GraphIDs :
          /\ (hop_count'[k] = hop_count[k] /\ k \in DOMAIN graphs) =>
                (k \in DOMAIN graphs' /\ graphs'[k] = graphs[k])
          /\ (hop_count'[k] = hop_count[k] /\ k \notin DOMAIN graphs) =>
                k \notin DOMAIN graphs'
          /\ hop_count'[k] > 0 => k \in DOMAIN graphs'
          /\ (hop_count'[k] # hop_count[k] /\ k \in DOMAIN graphs /\ k \in DOMAIN graphs') =>
                \E s, d \in Nodes :
                    /\ graphs'[k].edges = InsertEdge(graphs[k].edges, SystemEdge(s, d))
                    /\ graphs'[k].longest_cycle \in
                          {graphs[k].longest_cycle} \cup
                          { p + 1 : p \in SimplePathLengths(graphs[k].edges, d, s, {}) }
      ]_vars

\* C6 witness: the same systems occur under two keys; one key has recorded a
\* cycle of two hops, the other, holding one of the same edges, has none.
C6_Witness ==
    \E k, j \in DOMAIN graphs :
        /\ k # j
        /\ EdgeSet(graphs[j].edges) # {}
        /\ EdgeSet(graphs[j].edges) \subseteq EdgeSet(graphs[k].edges)
        /\ graphs[k].longest_cycle = 2
        /\ graphs[j].longest_cycle = 0
        /\ hop_count[j] = 2

\* C7: a graph's longest_cycle never decreases from one step of the main loop
\* to the next, and is 0 when its key is first seen.
C7_Monotone ==
    [][ \A k \in GraphIDs :
          /\ k \in DOMAIN graphs =>
                (k \in DOMAIN graphs' /\ graphs'[k].longest_cycle >= graphs[k].longest_cycle)
          /\ (k \notin DOMAIN graphs /\ k \in DOMAIN graphs') =>
                graphs'[k].longest_cycle = 0
      ]_vars

\* C7 witness: a graph with a recorded cycle has had further hops since.
C7_Witness ==
    \E k \in DOMAIN graphs :
        /\ graphs[k].longest_cycle = 2
        /\ hop_count[k] = 4

\* C9: nothing is printed before the stream ends; when it ends without error
\* exactly one line is printed: `claim_id,status_code,length` of the global
\* best if one of length > 0 was recorded, the not-found message otherwise.
C9_FinalResult ==
    /\ pc # "done" => output = <<>>
    /\ pc = "done" =>
          /\ Len(output) = 1
          /\ IF global_longest_cycle > 0
             THEN /\ global_longest_graph_id \in GraphIDs
                  /\ output[1] = global_longest_graph_id[1] \o "," \o
                                 global_longest_graph_id[2] \o "," \o
                                 ToString(global_longest_cycle)
             ELSE output[1] = "Could not find a longest cycle from data in hops.txt."

\* C9 witness: a run has ended with a global best of length 3.
C9_Witness ==
    pc = "done" /\ global_longest_cycle = 3 /\ Len(output) = 1

\* C10: a line that does not split into four fields ends the run in an error
\* at that line: nothing is printed then or later, no hop is processed after
\* it, and the line itself creates or changes no graph.
C10_MalformedAborts ==
    [][ /\ pc # "error"
        /\ DOMAIN graphs' \subseteq GraphIDs
        /\ pc' = "error" =>
              /\ Len(line') # 4
              /\ output' = <<>>
              /\ UNCHANGED <<graphs, global_longest_cycle, global_longest_graph_id,
                             hop_count>>
      ]_vars

\* C10 witness: the run was aborted on a malformed line after a cycle had
\* been recorded.
C10_Witness ==
    pc = "error" /\ Len(line) # 4 /\ global_longest_cycle > 0 /\ output = <<>>


\* The distinct systems that occur in an adjacency mapping, as a source or
\* as a destination.
AdjacencyNodes(e) == DOMAIN e \cup UNION { e[s] : s \in DOMAIN e }

\* What is left to do for the frames on the stack: a frame at depth d stands
\* for at most W^(D - d) iterations, D the number of distinct systems of the
\* adjacency and W = D + 1 more than any system has neighbours.
RECURSIVE FramesMeasure(_, _, _)
FramesMeasure(st, D, i) ==
    IF i = 0 THEN 0
    ELSE (D + 1) ^ (D - st[i].depth) + FramesMeasure(st, D, i - 1)

StackMeasure == FramesMeasure(stack, Cardinality(AdjacencyNodes(edges)), Len(stack))

\* Under weak fairness of the loop's iterations every call returns.
SearchEventuallyReturns == <>(spc = "returned")

\* C11: a stand-alone search terminates: while it runs the loop always has a
\* next iteration to take, and each iteration either returns or lowers a
\* natural-valued measure of the stack; and no frame on the stack is ever
\* deeper than the number of distinct systems in the adjacency.
C11_Terminates ==
    /\ [](spc = "running" => ENABLED SearchStep)
    /\ [](\A i \in 1..Len(stack) :
            /\ stack[i].depth >= 0
            /\ stack[i].depth <= Cardinality(AdjacencyNodes(edges)))
    /\ [][spc = "running" =>
            (spc' = "returned" \/ (StackMeasure' < StackMeasure /\ StackMeasure' >= 0))]_vars

\* C11 witness: a search with current_best = 0 has returned None from an
\* adjacency in which start lies on a cycle and some system has a self-loop.
C11_Witness ==
    /\ spc = "returned" /\ pc = "call" /\ current_best = 0 /\ result = None
    /\ \E n \in Neighbours(edges, start) : n # start /\ HasPath(edges, n, start)
    /\ \E n \in Nodes : n \in Neighbours(edges, n)

\* The depth bound of C11 is reached: a frame as deep as the adjacency has
\* distinct systems is on the stack.
DepthBoundReached ==
    \E i \in 1..Len(stack) :
        stack[i].depth = Cardinality(AdjacencyNodes(edges)) /\ stack[i].depth >= 2


\* C12: whatever a stand-alone search returns is the length of a simple path
\* of existing edges from start to target (no system twice on it); 0 is
\* returned only when start = target.
C12_Sound ==
    (spc = "returned" /\ result # None) =>
        /\ result \in SimplePathLengths(edges, start, target, {})
        /\ result = 0 => start = target

\* C12 witness: a search has returned 2 from an adjacency that also holds a
\* direct edge from start to target.
C12_Witness ==
    /\ spc = "returned" /\ pc = "call" /\ result = 2
    /\ target \in Neighbours(edges, start)


\* C13: the value a stand-alone search returns is fixed by (start, target,
\* adjacency, current_best): it is the only value any iteration order of the
\* neighbour sets can make the call return.
C13_Deterministic ==
    spc = "returned" =>
        search_cycle_paths(start, target, edges, current_best) = {result}


\* The lengths of the simple cycles an adjacency mapping holds.
SimpleCycleLengths(e) ==
    UNION { { p + 1 : p \in SimplePathLengths(e, x[2], x[1], {}) } : x \in EdgeSet(e) }

MaxLongestCycle ==
    IF DOMAIN graphs = {} THEN 0
    ELSE CHOOSE m \in { graphs[k].longest_cycle : k \in DOMAIN graphs } :
            \A k \in DOMAIN graphs : graphs[k].longest_cycle <= m

\* C15: between iterations of the main loop the global best length is the
\* largest longest_cycle of any graph; the global key is absent exactly when
\* that is 0 and otherwise names a graph whose longest_cycle equals it; and
\* the global best length never decreases.
C15_GlobalIsMaximum ==
    /\ [](/\ global_longest_cycle = MaxLongestCycle
          /\ (global_longest_graph_id = NoGraphID) <=> (MaxLongestCycle = 0)
          /\ MaxLongestCycle > 0 =>
                /\ global_longest_graph_id \in DOMAIN graphs
                /\ graphs[global_longest_graph_id].longest_cycle = global_longest_cycle)
    /\ [][global_longest_cycle' >= global_longest_cycle]_vars

\* C15 witness: two graphs have recorded cycles of different lengths and the
\* global best is the longer one, recorded after the shorter.
C15_Witness ==
    \E k, j \in DOMAIN graphs :
        /\ graphs[k].longest_cycle = 2
        /\ graphs[j].longest_cycle = 1
        /\ global_longest_graph_id = k
        /\ global_longest_cycle = 2


\* C16: between iterations of the main loop (the hop's edge inserted), a graph
\* whose longest_cycle is L > 0 holds a simple directed cycle of exactly L
\* edges, so L is at most the number of distinct systems of its adjacency.
C16_BestIsARealCycle ==
    \A k \in DOMAIN graphs :
        graphs[k].longest_cycle > 0 =>
            /\ graphs[k].longest_cycle \in SimpleCycleLengths(graphs[k].edges)
            /\ graphs[k].longest_cycle <= Cardinality(AdjacencyNodes(graphs[k].edges))

\* C16 witness: a graph over three systems has recorded a cycle of three hops.
C16_Witness ==
    \E k \in DOMAIN graphs :
        /\ graphs[k].longest_cycle = 3
        /\ Cardinality(AdjacencyNodes(graphs[k].edges)) = 3
        /\ pc = "loop"


\* C17: the global best is replaced only by a strictly longer cycle: a step
\* that changes the global key or length raises the length, so a hop closing
\* a cycle as long as the global best under another key leaves both as they
\* are, and among keys with the same maximal length the first detected stays.
C17_TieKeepsFirst ==
    [][ (\/ global_longest_graph_id' # global_longest_graph_id
         \/ global_longest_cycle' # global_longest_cycle) =>
            global_longest_cycle' > global_longest_cycle
      ]_vars

\* C17 witness: two keys have both recorded a cycle of two hops, the global
\* best length is 2 and the global key is one of them.
C17_Witness ==
    \E k, j \in DOMAIN graphs :
        /\ k # j
        /\ graphs[k].longest_cycle = 2
        /\ graphs[j].longest_cycle = 2
        /\ global_longest_graph_id = k
        /\ global_longest_cycle = 2

====
